---- MODULE Spec2Model ----
(***************************************************************************)
(* The authenticated connection handshake of keep-core's libp2p transport  *)
(* (authenticatedConnection): one initiator ("I") and one responder ("R")  *)
(* upgrade the two ends of a byte transport through three signed acts.     *)
(* The transport between them is a pair of FIFO frame queues that a        *)
(* network adversary may drop from, duplicate in, reorder, tamper with or  *)
(* inject into.  The callers then use the connections they were returned, *)
(* and a second handshake runs next to the first on a transport of its     *)
(* own.                                                                    *)
(***************************************************************************)
EXTENDS Integers, Sequences, FiniteSets, TLC

VARIABLES
    args,      \* role -> the arguments of its newAuthenticated*Connection call
    ac,        \* role -> the authenticatedConnection struct, or NoConn
    pc,        \* role -> position of the call
    err,       \* role -> the error the handshake ended with, or "none"
    closed,    \* role -> has this end's net.Conn been closed
    wire,      \* direction -> frames in flight
    sent,      \* history: every WriteMsg that succeeded, in order
    log,       \* history: role -> every envelope it decoded, with verdicts
    faults,    \* history: environment faults injected so far
    adv,       \* history: the number and the kinds of the adversary's steps so far
    app,       \* the byte stream from the initiator's returned connection to
               \* the responder's: written, in flight, held, read
    other,     \* the state of a second handshake, on a transport of its own
    cur        \* which of the two handshakes args .. app are the state of

vars == <<args, ac, pc, err, closed, wire, sent, log, faults, adv, app, other, cur>>

(***************************************************************************)
(* Bounds of the model                                                     *)
(***************************************************************************)
MaxAdv == 2          \* adversary steps per run
MaxQueue == 2        \* frames the adversary lets a direction grow to
EnvelopeLen == 200   \* encoded length of an envelope an honest role writes
MaxData == 2         \* chunks the initiator writes to its returned connection
TwinAdv == 1         \* adversary steps per run when two runs are compared

(***************************************************************************)
(* Program constants                                                       *)
(***************************************************************************)
maxFrameSize == 1024

Roles == {"I", "R"}
Peer(r) == IF r = "I" THEN "R" ELSE "I"
Out(r) == IF r = "I" THEN "I2R" ELSE "R2I"
In(r) == Out(Peer(r))
Directions == {"I2R", "R2I"}

HonestIDs == {"idA", "idB"}          \* identities of the two honest peers
\* the initiator's own identity: the honest identities are interchangeable, so
\* it is fixed and the responder's is either the same or the other one
InitiatorIDs == {"idA"}
AdvID == "idX"                       \* the adversary's own, well-formed identity
MalformedID == "malformed"           \* identity bytes that embed no public key
EmptyID == ""                        \* the empty peer.ID
WellFormedIDs == HonestIDs \cup {AdvID}
PeerIDs == WellFormedIDs \cup {MalformedID}

NoConn == [nil |-> TRUE]
NoKey == <<"nokey">>
Junk == <<"junkbytes">>

(***************************************************************************)
(* Peer-identity system (libp2p): keys, signatures                         *)
(***************************************************************************)
PrivKeyOf(id) == <<"sk", id>>
PubKeyOf(id) == <<"pk", id>>

\* peer.ID.ExtractPublicKey: the key embedded in the identity, or an error
ExtractPublicKey(id) ==
    IF id \in WellFormedIDs THEN [ok |-> TRUE, key |-> PubKeyOf(id)]
                            ELSE [ok |-> FALSE, key |-> NoKey]

\* PrivKey.Sign: the signature of messageBytes under the key
Sign(privateKey, messageBytes) == <<"sig", privateKey[2], messageBytes>>

\* verifyEnvelope: is signatureBytes a signature of messageBytes under the
\* public key of sender
verifyEnvelope(sender, messageBytes, signatureBytes) ==
    IF /\ ExtractPublicKey(sender).ok
       /\ signatureBytes = <<"sig", sender, messageBytes>>
    THEN "ok"
    ELSE "signature_invalid"

\* variants of verify: the comparison inverted; the comparison left out; the
\* signature check left out; the signature checked before the comparison
verify_inverted(pinned, sender, messageBytes, signatureBytes) ==
    IF pinned = sender
    THEN "identity_mismatch"
    ELSE verifyEnvelope(sender, messageBytes, signatureBytes)

verify_noPin(pinned, sender, messageBytes, signatureBytes) ==
    verifyEnvelope(sender, messageBytes, signatureBytes)

verify_noSig(pinned, sender, messageBytes, signatureBytes) ==
    IF pinned # sender THEN "identity_mismatch" ELSE "ok"

verify_sigFirst(pinned, sender, messageBytes, signatureBytes) ==
    IF verifyEnvelope(sender, messageBytes, signatureBytes) # "ok"
    THEN "signature_invalid"
    ELSE IF pinned # sender THEN "identity_mismatch" ELSE "ok"

\* verify: the pinned identity is compared with the sender's before the
\* signature is checked
verify(pinned, sender, messageBytes, signatureBytes) ==
    IF pinned # sender
    THEN "identity_mismatch"
    ELSE verifyEnvelope(sender, messageBytes, signatureBytes)

(***************************************************************************)
(* Act payloads of the key-agreement sub-protocol (package handshake)      *)
(***************************************************************************)
Acts == {1, 2, 3}
\* the marshalled payload the honest sub-protocol produces for an act
Marshal(act) == [act |-> act, by |-> "sub"]
\* a well-formed payload of the adversary's choosing
AdvPayload(act) == [act |-> act, by |-> "adv"]
\* ActNMessage.Unmarshal: only the bytes of an act-N payload decode
Unmarshal(act, messageBytes) == messageBytes.act = act

(***************************************************************************)
(* Envelopes and frames                                                    *)
(***************************************************************************)
\* variant: the envelope names the remote peer instead of the writer
HandshakeEnvelope_remoteID(conn, wireMessage) ==
    [message |-> wireMessage,
     peerID |-> conn.remotePeerID,
     signature |-> Sign(conn.localPeerPrivateKey, wireMessage),
     len |-> EnvelopeLen]

\* pb.HandshakeEnvelope as built by the three send functions
HandshakeEnvelope(conn, wireMessage) ==
    [message |-> wireMessage,
     peerID |-> conn.localPeerID,
     signature |-> Sign(conn.localPeerPrivateKey, wireMessage),
     len |-> EnvelopeLen]


\* the adversary's own envelopes: its payloads under its own identity and key
Forged ==
    {[message |-> AdvPayload(a),
      peerID |-> AdvID,
      signature |-> Sign(PrivKeyOf(AdvID), AdvPayload(a)),
      len |-> EnvelopeLen] : a \in Acts}

\* what the adversary can turn a frame in flight into
Tamperings(f) ==
    {[f EXCEPT !.signature = Junk],
     [f EXCEPT !.peerID = AdvID],
     [f EXCEPT !.peerID = AdvID,
               !.signature = Sign(PrivKeyOf(AdvID), f.message)],
     [f EXCEPT !.message = AdvPayload(f.message.act)],
     [f EXCEPT !.len = maxFrameSize],
     [f EXCEPT !.len = maxFrameSize + 1]} \ {f}

(***************************************************************************)
(* Initial state: both calls have been entered with their arguments        *)
(***************************************************************************)
ErrorKinds ==
    {"none", "malformed_identity", "transport_io", "frame_oversize",
     "crypto_error", "identity_mismatch", "signature_invalid",
     "malformed_envelope", "subprotocol_error"}

\* no bytes written to a returned connection yet
NoData == [sent |-> <<>>, wire |-> <<>>, held |-> <<>>, recv |-> <<>>]

\* a handshake whose two calls have been entered with these arguments
Entered(a, b, e, x) ==
    [args |-> [I |-> [localPeerID |-> a, privateKey |-> PrivKeyOf(a),
                      remotePeerID |-> e],
               R |-> [localPeerID |-> b, privateKey |-> PrivKeyOf(b),
                      remotePeerID |-> x]],
     ac |-> [r \in Roles |-> NoConn],
     pc |-> [r \in Roles |-> "Call"],
     err |-> [r \in Roles |-> "none"],
     closed |-> [r \in Roles |-> FALSE],
     wire |-> [d \in Directions |-> <<>>],
     sent |-> <<>>,
     log |-> [r \in Roles |-> <<>>],
     faults |-> {},
     adv |-> [n |-> 0, kinds |-> {}],
     app |-> NoData]

Init ==
    /\ \E a \in InitiatorIDs, b \in HonestIDs, e \in PeerIDs, x \in {EmptyID, AdvID} :
          args = [I |-> [localPeerID |-> a, privateKey |-> PrivKeyOf(a),
                         remotePeerID |-> e],
                  R |-> [localPeerID |-> b, privateKey |-> PrivKeyOf(b),
                         remotePeerID |-> x]]
    /\ ac = [r \in Roles |-> NoConn]
    /\ pc = [r \in Roles |-> "Call"]
    /\ err = [r \in Roles |-> "none"]
    /\ closed = [r \in Roles |-> FALSE]
    /\ wire = [d \in Directions |-> <<>>]
    /\ sent = <<>>
    /\ log = [r \in Roles |-> <<>>]
    /\ faults = {}
    /\ adv = [n |-> 0, kinds |-> {}]
    /\ app = NoData
    \* the second handshake: the other honest peer dials the first one
    /\ other = Entered("idB", "idA", "idA", EmptyID)
    /\ cur = 1

(***************************************************************************)
(* The wrappers                                                            *)
(***************************************************************************)
\* variant: the error of ExtractPublicKey is dropped
newAuthenticatedOutboundConnection_ignoreErr ==
    /\ pc["I"] = "Call"
    /\ ac' = [ac EXCEPT !["I"] =
                [localPeerID |-> args["I"].localPeerID,
                 localPeerPrivateKey |-> args["I"].privateKey,
                 remotePeerID |-> args["I"].remotePeerID,
                 remotePeerPublicKey |->
                    ExtractPublicKey(args["I"].remotePeerID).key]]
    /\ pc' = [pc EXCEPT !["I"] = "Init"]
    /\ UNCHANGED <<args, err, closed, wire, sent, log, faults, adv, app, other, cur>>

\* lines 244-264: extract the remote key, build the connection object
newAuthenticatedOutboundConnection ==
    /\ pc["I"] = "Call"
    /\ LET remotePublicKey == ExtractPublicKey(args["I"].remotePeerID)
       IN IF ~remotePublicKey.ok
          THEN \* returns the error at once; the transport is left as it is
               /\ pc' = [pc EXCEPT !["I"] = "Failed"]
               /\ err' = [err EXCEPT !["I"] = "malformed_identity"]
               /\ ac' = ac
          ELSE /\ ac' = [ac EXCEPT !["I"] =
                           [localPeerID |-> args["I"].localPeerID,
                            localPeerPrivateKey |-> args["I"].privateKey,
                            remotePeerID |-> args["I"].remotePeerID,
                            remotePeerPublicKey |-> remotePublicKey.key]]
               /\ pc' = [pc EXCEPT !["I"] = "Init"]
               /\ err' = err
    /\ UNCHANGED <<args, closed, wire, sent, log, faults, adv, app, other, cur>>

\* variant: the responder starts by sending
newAuthenticatedInboundConnection_sendFirst ==
    /\ pc["R"] = "Call"
    /\ ac' = [ac EXCEPT !["R"] =
                [localPeerID |-> args["R"].localPeerID,
                 localPeerPrivateKey |-> args["R"].privateKey,
                 remotePeerID |-> EmptyID,
                 remotePeerPublicKey |-> NoKey]]
    /\ pc' = [pc EXCEPT !["R"] = "SendingAct2"]
    /\ UNCHANGED <<args, err, closed, wire, sent, log, faults, adv, app, other, cur>>

\* variant: the remotePeerID argument is stored in the connection object
newAuthenticatedInboundConnection_storesArg ==
    /\ pc["R"] = "Call"
    /\ ac' = [ac EXCEPT !["R"] =
                [localPeerID |-> args["R"].localPeerID,
                 localPeerPrivateKey |-> args["R"].privateKey,
                 remotePeerID |-> args["R"].remotePeerID,
                 remotePeerPublicKey |-> NoKey]]
    /\ pc' = [pc EXCEPT !["R"] = "AwaitingAct1"]
    /\ UNCHANGED <<args, err, closed, wire, sent, log, faults, adv, app, other, cur>>

\* lines 217-229: build the connection object; remotePeerID is not used
newAuthenticatedInboundConnection ==
    /\ pc["R"] = "Call"
    /\ ac' = [ac EXCEPT !["R"] =
                [localPeerID |-> args["R"].localPeerID,
                 localPeerPrivateKey |-> args["R"].privateKey,
                 remotePeerID |-> EmptyID,
                 remotePeerPublicKey |-> NoKey]]
    /\ pc' = [pc EXCEPT !["R"] = "AwaitingAct1"]
    /\ UNCHANGED <<args, err, closed, wire, sent, log, faults, adv, app, other, cur>>

\* variant: the return after Close is missing, the wrapper goes on to
\* return the connection
Fail_fallThrough(r, e) ==
    /\ pc' = [pc EXCEPT ![r] = "Done"]
    /\ err' = err
    /\ closed' = [closed EXCEPT ![r] = TRUE]

\* variant: the error is returned with the connection left open
Fail_leak(r, e) ==
    /\ pc' = [pc EXCEPT ![r] = "Failed"]
    /\ err' = [err EXCEPT ![r] = e]
    /\ closed' = closed

\* a step of runHandshakeAs* returns err: the wrapper closes the connection
\* and returns the error (lines 229-234, 266-269)
Fail(r, e) ==
    /\ pc' = [pc EXCEPT ![r] = "Failed"]
    /\ err' = [err EXCEPT ![r] = e]
    /\ closed' = [closed EXCEPT ![r] = TRUE]


(***************************************************************************)
(* Envelope codec over the transport (protoio delimited reader / writer)   *)
(***************************************************************************)
\* how a WriteMsg by r can end: written, a transport error of its own, or an
\* error because the other end is closed (a write to a closed peer may also
\* still be accepted by the local stack)
WriteOutcomes(r) ==
    {"ok", "io_fault"} \cup (IF closed[Peer(r)] THEN {"peer_closed"} ELSE {})

\* how a ReadMsg by r can end: a frame is there, the stream ended because the
\* other end is closed, or a transport error of its own (a deadline, a reset);
\* with none of these the read blocks
ReadOutcomes(r) ==
    {"io_fault"}
    \cup (IF wire[In(r)] # <<>> THEN {"frame"} ELSE {})
    \cup (IF wire[In(r)] = <<>> /\ closed[Peer(r)] THEN {"eof"} ELSE {})

\* variant: the limit is off by one
FrameTooLarge_offByOne(frame) == frame.len > maxFrameSize + 1

\* the delimited reader refuses a frame longer than its maxSize
FrameTooLarge(frame) == frame.len > maxFrameSize

(***************************************************************************)
(* Sending an act: sign the marshalled payload, wrap it, write it          *)
(* (initiatorSendAct1, responderSendAct2, initiatorSendAct3)               *)
(***************************************************************************)
\* variant: WriteMsg is called twice with the envelope
sendAct_twice(r, wireMessage, nextPc) ==
    \E o \in WriteOutcomes(r) \cup {"sign_fault"} :
       /\ UNCHANGED <<args, ac, log, adv, app, other, cur>>
       /\ IF o = "ok"
          THEN LET envelope == HandshakeEnvelope(ac[r], wireMessage)
               IN /\ wire' = [wire EXCEPT ![Out(r)] = Append(Append(@, envelope), envelope)]
                  /\ sent' = Append(Append(sent, [by |-> r, frame |-> envelope]),
                                    [by |-> r, frame |-> envelope])
                  /\ pc' = [pc EXCEPT ![r] = nextPc]
                  /\ UNCHANGED <<err, closed, faults>>
          ELSE /\ Fail(r, IF o = "sign_fault" THEN "crypto_error" ELSE "transport_io")
               /\ faults' = faults \cup (IF o = "sign_fault" THEN {"sign"}
                                         ELSE IF o = "io_fault" THEN {"io"} ELSE {})
               /\ UNCHANGED <<wire, sent>>

\* Sign, build the envelope, WriteMsg; any of them may return an error
sendAct(r, wireMessage, nextPc) ==
    \E o \in WriteOutcomes(r) \cup {"sign_fault"} :
       /\ UNCHANGED <<args, ac, log, adv, app, other, cur>>
       /\ IF o = "ok"
          THEN LET envelope == HandshakeEnvelope(ac[r], wireMessage)
               IN /\ wire' = [wire EXCEPT ![Out(r)] = Append(@, envelope)]
                  /\ sent' = Append(sent, [by |-> r, frame |-> envelope])
                  /\ pc' = [pc EXCEPT ![r] = nextPc]
                  /\ UNCHANGED <<err, closed, faults>>
          ELSE /\ Fail(r, IF o = "sign_fault" THEN "crypto_error" ELSE "transport_io")
               /\ faults' = faults \cup (IF o = "sign_fault" THEN {"sign"}
                                         ELSE IF o = "io_fault" THEN {"io"} ELSE {})
               /\ UNCHANGED <<wire, sent>>

\* lines 284-296: InitiateHandshake, marshal, initiatorSendAct1
initiatorSendAct1 ==
    /\ pc["I"] = "Init"
    /\ \/ sendAct("I", Marshal(1), "AwaitingAct2")
       \/ \* handshake.InitiateHandshake returns an error
          /\ Fail("I", "subprotocol_error")
          /\ faults' = faults \cup {"sub"}
          /\ UNCHANGED <<args, ac, wire, sent, log, adv, app, other, cur>>

\* variant: after writing Act 3 the initiator waits for an answer
initiatorSendAct3_awaitsAnswer ==
    /\ pc["I"] = "AwaitingAct3Send"
    /\ sendAct("I", Marshal(3), "AwaitingAct2")

\* lines 318-327: marshal, initiatorSendAct3, return nil
initiatorSendAct3 ==
    /\ pc["I"] = "AwaitingAct3Send"
    /\ sendAct("I", Marshal(3), "Done")

\* variant: the Act 2 envelope is written twice
responderSendAct2_twice ==
    /\ pc["R"] = "SendingAct2"
    /\ sendAct_twice("R", Marshal(2), "AwaitingAct3")

\* lines 434-442: marshal, responderSendAct2
responderSendAct2 ==
    /\ pc["R"] = "SendingAct2"
    /\ sendAct("R", Marshal(2), "AwaitingAct3")

(***************************************************************************)
(* Receiving an act: read one envelope, verify it against the pinned       *)
(* identity, unmarshal its message, hand it to the sub-protocol            *)
(***************************************************************************)
\* the entry a role appends to its log for an envelope it decoded
Received(act, pinned, envelope, verdict, sub) ==
    [act |-> act, pinned |-> pinned, env |-> envelope,
     verify |-> verdict, sub |-> sub]

\* variant: the error verify returns is dropped
checkEnvelope_ignoreVerify(r, act, pinned, envelope, nextPc) ==
    LET verdict == verify(pinned, envelope.peerID,
                          envelope.message, envelope.signature)
    IN /\ pc' = [pc EXCEPT ![r] = nextPc]
       /\ UNCHANGED <<err, closed>>
       /\ log' = [log EXCEPT ![r] =
                    Append(@, Received(act, pinned, envelope, verdict, "accepted"))]
       /\ faults' = faults

\* variant: the error Unmarshal returns is dropped
checkEnvelope_ignoreUnmarshal(r, act, pinned, envelope, nextPc) ==
    LET verdict == verify(pinned, envelope.peerID,
                          envelope.message, envelope.signature)
    IN IF verdict # "ok"
       THEN /\ Fail(r, verdict)
            /\ log' = [log EXCEPT ![r] =
                         Append(@, Received(act, pinned, envelope, verdict, "none"))]
            /\ faults' = faults
       ELSE /\ pc' = [pc EXCEPT ![r] = nextPc]
            /\ UNCHANGED <<err, closed>>
            /\ log' = [log EXCEPT ![r] =
                         Append(@, Received(act, pinned, envelope, verdict, "accepted"))]
            /\ faults' = faults

\* the part of a receive step after ReadMsg has decoded `envelope`, with
\* `pinned` the identity handed to verify
checkEnvelope(r, act, pinned, envelope, nextPc) ==
    LET verdict == verify(pinned, envelope.peerID,
                          envelope.message, envelope.signature)
    IN IF verdict # "ok"
       THEN /\ Fail(r, verdict)
            /\ log' = [log EXCEPT ![r] =
                         Append(@, Received(act, pinned, envelope, verdict, "none"))]
            /\ faults' = faults
       ELSE IF ~Unmarshal(act, envelope.message)
       THEN /\ Fail(r, "malformed_envelope")
            /\ log' = [log EXCEPT ![r] =
                         Append(@, Received(act, pinned, envelope, verdict, "unmarshal_error"))]
            /\ faults' = faults
       ELSE \/ \* the sub-protocol accepts the message
               /\ pc' = [pc EXCEPT ![r] = nextPc]
               /\ UNCHANGED <<err, closed>>
               /\ log' = [log EXCEPT ![r] =
                            Append(@, Received(act, pinned, envelope, verdict, "accepted"))]
               /\ faults' = faults
            \/ \* the sub-protocol rejects the message
               /\ Fail(r, "subprotocol_error")
               /\ log' = [log EXCEPT ![r] =
                            Append(@, Received(act, pinned, envelope, verdict, "rejected"))]
               /\ faults' = faults \cup {"sub"}

\* variant: the reader takes from the transport the bytes of the frame only
ReadAhead_none(r) == {0}

\* The delimited reader reads the transport through a buffer of its own
\* (runHandshakeAs* builds it, and it is dropped when the track returns): a
\* ReadMsg takes from the transport what has arrived, which is the frame and
\* may be bytes behind it.  ReadAhead(r) is how many chunks written behind
\* the last handshake frame the read may take along with that frame.
ReadAhead(r) ==
    IF r = "R" /\ Len(wire[In(r)]) = 1 THEN 0..Len(app.wire) ELSE {0}

\* variant: the adopted peerID is assigned to the local identity as well
receiveAct_setsLocalID(r, act, adopt, nextPc) ==
    \E o \in ReadOutcomes(r) :
       /\ UNCHANGED <<args, sent, adv, other, cur>>
       /\ IF o = "frame"
          THEN LET frame == Head(wire[In(r)])
               IN /\ wire' = [wire EXCEPT ![In(r)] = Tail(@)]
                  /\ \E k \in ReadAhead(r) :
                        app' = [app EXCEPT
                                  !.held = @ \o SubSeq(app.wire, 1, k),
                                  !.wire = SubSeq(app.wire, k + 1, Len(app.wire))]
                  /\ IF FrameTooLarge(frame)
                     THEN /\ Fail(r, "frame_oversize")
                          /\ UNCHANGED <<ac, log, faults>>
                     ELSE /\ ac' = IF adopt
                                   THEN [ac EXCEPT ![r].remotePeerID = frame.peerID,
                                                   ![r].localPeerID = frame.peerID]
                                   ELSE ac
                          /\ checkEnvelope(r, act, ac'[r].remotePeerID, frame, nextPc)
          ELSE /\ Fail(r, "transport_io")
               /\ faults' = faults \cup (IF o = "io_fault" THEN {"io"} ELSE {})
               /\ UNCHANGED <<ac, wire, log, app>>

\* a receive step of role r: ReadMsg, then (adopt: pin the envelope's peerID
\* first) verify, Unmarshal and the sub-protocol's step
receiveAct(r, act, adopt, nextPc) ==
    \E o \in ReadOutcomes(r) :
       /\ UNCHANGED <<args, sent, adv, other, cur>>
       /\ IF o = "frame"
          THEN LET frame == Head(wire[In(r)])
               IN /\ wire' = [wire EXCEPT ![In(r)] = Tail(@)]
                  /\ \E k \in ReadAhead(r) :
                        app' = [app EXCEPT
                                  !.held = @ \o SubSeq(app.wire, 1, k),
                                  !.wire = SubSeq(app.wire, k + 1, Len(app.wire))]
                  /\ IF FrameTooLarge(frame)
                     THEN /\ Fail(r, "frame_oversize")
                          /\ UNCHANGED <<ac, log, faults>>
                     ELSE /\ ac' = IF adopt
                                   THEN [ac EXCEPT ![r].remotePeerID = frame.peerID]
                                   ELSE ac
                          /\ checkEnvelope(r, act, ac'[r].remotePeerID, frame, nextPc)
          ELSE /\ Fail(r, "transport_io")
               /\ faults' = faults \cup (IF o = "io_fault" THEN {"io"} ELSE {})
               /\ UNCHANGED <<ac, wire, log, app>>

\* variant: Act 2 adopts the envelope's peerID as Act 1 does
initiatorReceiveAct2_adopt ==
    /\ pc["I"] = "AwaitingAct2"
    /\ receiveAct("I", 2, TRUE, "AwaitingAct3Send")

\* lines 304-312: initiatorReceiveAct2, then initiatorAct2.Next(act2Message)
initiatorReceiveAct2 ==
    /\ pc["I"] = "AwaitingAct2"
    /\ receiveAct("I", 2, FALSE, "AwaitingAct3Send")

\* lines 420-428: responderReceiveAct1, then handshake.AnswerHandshake
responderReceiveAct1 ==
    /\ pc["R"] = "AwaitingAct1"
    /\ receiveAct("R", 1, TRUE, "SendingAct2")

\* variant: Act 3 adopts the envelope's peerID as Act 1 does
responderReceiveAct3_adopt ==
    /\ pc["R"] = "AwaitingAct3"
    /\ receiveAct("R", 3, TRUE, "Done")

\* lines 448-457: responderReceiveAct3, then FinalizeHandshake, return nil
responderReceiveAct3 ==
    /\ pc["R"] = "AwaitingAct3"
    /\ receiveAct("R", 3, FALSE, "Done")

(***************************************************************************)
(* The returned connections: authenticatedConnection embeds net.Conn, so   *)
(* Read and Write on it are the transport's                                *)
(***************************************************************************)
\* the initiator's caller writes the next chunk to the connection it got
connWrite ==
    /\ pc["I"] = "Done"
    /\ Len(app.sent) < MaxData
    /\ LET chunk == Len(app.sent) + 1
       IN app' = [app EXCEPT !.sent = Append(@, chunk),
                             !.wire = Append(@, chunk)]
    /\ UNCHANGED <<args, ac, pc, err, closed, wire, sent, log, faults, adv,
                   other, cur>>

\* the responder's caller reads from the connection it got: the next bytes
\* of the transport
connRead ==
    /\ pc["R"] = "Done"
    /\ wire[In("R")] = <<>>
    /\ app.wire # <<>>
    /\ app' = [app EXCEPT !.recv = Append(@, Head(app.wire)),
                          !.wire = Tail(@)]
    /\ UNCHANGED <<args, ac, pc, err, closed, wire, sent, log, faults, adv,
                   other, cur>>

(***************************************************************************)
(* Two handshakes at once: the scheduler moves from one call to another    *)
(***************************************************************************)
\* the state of the handshake that args .. app hold
This ==
    [args |-> args, ac |-> ac, pc |-> pc, err |-> err, closed |-> closed,
     wire |-> wire, sent |-> sent, log |-> log, faults |-> faults,
     adv |-> adv, app |-> app]

\* variant: the connection objects are shared between the handshakes
Switch_sharedConn ==
    /\ other' = [This EXCEPT !.ac = other.ac]
    /\ args' = other.args
    /\ ac' = ac
    /\ pc' = other.pc
    /\ err' = other.err
    /\ closed' = other.closed
    /\ wire' = other.wire
    /\ sent' = other.sent
    /\ log' = other.log
    /\ faults' = other.faults
    /\ adv' = other.adv
    /\ app' = other.app
    /\ cur' = 3 - cur

\* the calls of the other handshake run next: each call has its own
\* arguments, connection object, reader, writer and transport
Switch ==
    /\ other' = This
    /\ args' = other.args
    /\ ac' = other.ac
    /\ pc' = other.pc
    /\ err' = other.err
    /\ closed' = other.closed
    /\ wire' = other.wire
    /\ sent' = other.sent
    /\ log' = other.log
    /\ faults' = other.faults
    /\ adv' = other.adv
    /\ app' = other.app
    /\ cur' = 3 - cur

(***************************************************************************)
(* The network adversary                                                   *)
(***************************************************************************)
Returned(r) == pc[r] \in {"Done", "Failed"}

\* the role at the reading end of d is in a ReadMsg
Reading(d) ==
    IF d = "R2I"
    THEN pc["I"] = "AwaitingAct2"
    ELSE pc["R"] \in {"AwaitingAct1", "AwaitingAct3"}

\* The adversary changes the frames in flight in direction d.  A role sees
\* the frames in flight only in ReadMsg, and there only the first: so the
\* adversary takes its steps while the reader is in a ReadMsg, on the frame
\* that read would return.  A change made earlier, or to a frame further
\* back, has the effect of the same change made when that frame is the
\* next to be read; one made after the reader's last ReadMsg has no effect
\* on the handshake.
AdvStep(kind, d, q) ==
    /\ adv.n < MaxAdv
    /\ Reading(d)
    /\ adv' = [n |-> adv.n + 1, kinds |-> adv.kinds \cup {kind}]
    /\ wire' = [wire EXCEPT ![d] = q]
    /\ UNCHANGED <<args, ac, pc, err, closed, sent, log, faults, app, other, cur>>

\* the next frame is lost
advDrop ==
    \E d \in Directions :
       /\ wire[d] # <<>>
       /\ AdvStep("drop", d, Tail(wire[d]))

\* the next frame is delivered twice
advDuplicate ==
    \E d \in Directions :
       /\ wire[d] # <<>>
       /\ Len(wire[d]) < MaxQueue
       /\ AdvStep("duplicate", d, <<Head(wire[d])>> \o wire[d])

\* the next two frames are delivered in the other order
advReorder ==
    \E d \in Directions :
       /\ Len(wire[d]) > 1
       /\ wire[d][1] # wire[d][2]
       /\ AdvStep("reorder", d, <<wire[d][2], wire[d][1]>> \o Tail(Tail(wire[d])))

\* the next frame is changed
advTamper ==
    \E d \in Directions :
       /\ wire[d] # <<>>
       /\ \E f \in Tamperings(Head(wire[d])) :
             AdvStep("tamper", d, <<f>> \o Tail(wire[d]))

\* a frame of the adversary's is put in front of the next frame, or behind it
advInject ==
    \E d \in Directions : \E f \in Forged : \E i \in {0, 1} :
       /\ i <= Len(wire[d])
       /\ Len(wire[d]) < MaxQueue
       /\ AdvStep("inject", d, SubSeq(wire[d], 1, i) \o <<f>>
                               \o SubSeq(wire[d], i + 1, Len(wire[d])))

(***************************************************************************)
(* Specifications                                                          *)
(***************************************************************************)
InitiatorStep ==
    \/ newAuthenticatedOutboundConnection
    \/ initiatorSendAct1
    \/ initiatorReceiveAct2
    \/ initiatorSendAct3

ResponderStep ==
    \/ newAuthenticatedInboundConnection
    \/ responderReceiveAct1
    \/ responderSendAct2
    \/ responderReceiveAct3

AdversaryStep ==
    \/ advDrop
    \/ advDuplicate
    \/ advReorder
    \/ advTamper
    \/ advInject

Next == InitiatorStep \/ ResponderStep \/ AdversaryStep

\* every behaviour, with the adversary on the wire
Spec == Init /\ [][Next]_vars

\* a reliable transport (no adversary), each call scheduled while it can run
ReliableNext == InitiatorStep \/ ResponderStep

FairSpec ==
    /\ Init
    /\ [][ReliableNext]_vars
    /\ WF_vars(InitiatorStep)
    /\ WF_vars(ResponderStep)

\* a reliable transport, and the callers using the connections they got
StreamNext == InitiatorStep \/ ResponderStep \/ connWrite \/ connRead

StreamSpec == Init /\ [][StreamNext]_vars

\* two handshakes on two reliable transports, their steps interleaved in
\* any order; every call is scheduled again and again while it can run
ConcurrentNext == InitiatorStep \/ ResponderStep \/ Switch

ConcurrentSpec ==
    /\ Init
    /\ [][ConcurrentNext]_vars
    /\ WF_vars(Switch)
    /\ \A h \in {1, 2} : SF_vars(cur = h /\ (InitiatorStep \/ ResponderStep))

\* h with the other value of the remotePeerID argument of
\* newAuthenticatedInboundConnection
Twin(h) ==
    [h EXCEPT !.args["R"].remotePeerID = IF @ = EmptyID THEN AdvID ELSE EmptyID]

\* the same two calls entered twice, the second time with the other value
\* of that argument
TwinInit ==
    \E a \in InitiatorIDs, b \in HonestIDs, e \in PeerIDs, x \in {EmptyID, AdvID} :
       LET h == Entered(a, b, e, x)
       IN /\ args = h.args
          /\ ac = h.ac
          /\ pc = h.pc
          /\ err = h.err
          /\ closed = h.closed
          /\ wire = h.wire
          /\ sent = h.sent
          /\ log = h.log
          /\ faults = h.faults
          /\ adv = h.adv
          /\ app = h.app
          /\ other = Twin(h)
          /\ cur = 1

\* the two runs are at the same point: they differ in that argument only
InStep == other = Twin(This)

\* a step of the calls or of the adversary
TwinStep ==
    \/ InitiatorStep
    \/ ResponderStep
    \/ (adv.n < TwinAdv /\ AdversaryStep)

\* the first run takes any step
twinLead == cur = 1 /\ InStep /\ TwinStep

\* the second run takes the step that brings it where the first one is
twinFollow == cur = 2 /\ ~InStep /\ TwinStep /\ This' = Twin(other)

\* from the run that has stepped to the one that has to, and back
twinSwitch ==
    /\ (cur = 1 /\ ~InStep) \/ (cur = 2 /\ InStep)
    /\ Switch

TwinNext == twinLead \/ twinFollow \/ twinSwitch

\* the two runs in lockstep, on transports in the adversary's hands
TwinSpec == TwinInit /\ [][TwinNext]_vars


(***************************************************************************)
(* Derived views of the histories                                          *)
(***************************************************************************)
\* the frames role r has written, in order
Written(r) ==
    LET F[i \in 0..Len(sent)] ==
            IF i = 0 THEN <<>>
            ELSE IF sent[i].by = r THEN Append(F[i - 1], sent[i].frame) ELSE F[i - 1]
    IN F[Len(sent)]

\* the number of bytes role r has written
BytesWritten(r) ==
    LET w == Written(r)
        B[i \in 0..Len(w)] == IF i = 0 THEN 0 ELSE B[i - 1] + w[i].len
    IN B[Len(w)]

\* the envelopes role r has decoded, in order
Consumed(r) == [i \in 1..Len(log[r]) |-> log[r][i].env]

\* is the signature of a logged envelope valid under the key of its peerID
SignatureValid(entry) ==
    verifyEnvelope(entry.env.peerID, entry.env.message, entry.env.signature) = "ok"

\* role r has read the act-a envelope, verify passed and the sub-protocol
\* accepted its message
Accepted(r, a) ==
    \E i \in 1..Len(log[r]) :
       /\ log[r][i].act = a
       /\ log[r][i].verify = "ok"
       /\ log[r][i].sub = "accepted"

HasFailed(r) == pc[r] = "Failed"
BothDone == pc["I"] = "Done" /\ pc["R"] = "Done"

(***************************************************************************)
(* C1: every error return of either upgrade call happens with the          *)
(* underlying transport closed: no call has returned an error while its    *)
(* end of the transport is still open.                                     *)
(***************************************************************************)
C1_ErrorReturnClosesTransport ==
    \A r \in Roles : pc[r] = "Failed" => closed[r]

(***************************************************************************)
(* C2: round trip.  When the initiator expects the responder's identity,   *)
(* the transport is reliable and no step is failed by its environment (the *)
(* sub-protocol, the signer, the transport), both calls eventually return  *)
(* success, the initiator pinned to the responder's identity and the       *)
(* responder to the initiator's.                                           *)
(***************************************************************************)
HonestPair == args["I"].remotePeerID = args["R"].localPeerID

BothDonePinned ==
    /\ BothDone
    /\ ac["I"].remotePeerID = args["R"].localPeerID
    /\ ac["R"].remotePeerID = args["I"].localPeerID

C2_RoundTripSuccess == HonestPair => <>(BothDonePinned \/ faults # {})

C2_Witness == HonestPair /\ BothDonePinned /\ faults = {} /\ adv.n = 0

(***************************************************************************)
(* C3: identity pinning on the initiator.  Once the initiator has read an  *)
(* Act 2 envelope whose peerID differs from the expected remote identity   *)
(* it was given, the call has returned the identity_mismatch error, it has *)
(* written no Act 3 and its transport is closed.                           *)
(***************************************************************************)
Act2Mismatch(i) ==
    /\ log["I"][i].act = 2
    /\ log["I"][i].env.peerID # args["I"].remotePeerID

C3_InitiatorPinning ==
    \A i \in 1..Len(log["I"]) :
       Act2Mismatch(i) =>
          /\ HasFailed("I")
          /\ err["I"] = "identity_mismatch"
          /\ Len(Written("I")) = 1
          /\ closed["I"]

C3_Witness ==
    /\ pc["I"] = "Failed"
    /\ closed["I"]
    /\ \E i \in 1..Len(log["I"]) : Act2Mismatch(i) /\ SignatureValid(log["I"][i])

(***************************************************************************)
(* C4: identity pinning on the responder.  Once the responder has read an  *)
(* Act 3 envelope whose peerID differs from the peerID of the Act 1        *)
(* envelope, it has failed with identity_mismatch, whatever the signature, *)
(* and is not Done.                                                        *)
(***************************************************************************)
Act3Mismatch(i) ==
    /\ i > 1
    /\ log["R"][i].act = 3
    /\ log["R"][1].act = 1
    /\ log["R"][i].env.peerID # log["R"][1].env.peerID

C4_ResponderPinning ==
    \A i \in 1..Len(log["R"]) :
       Act3Mismatch(i) =>
          /\ HasFailed("R")
          /\ err["R"] = "identity_mismatch"

C4_Witness ==
    /\ pc["R"] = "Failed"
    /\ \E i \in 1..Len(log["R"]) : Act3Mismatch(i) /\ SignatureValid(log["R"][i])

(***************************************************************************)
(* C5 as stated: once a role has read an envelope whose signature is not   *)
(* valid for its message under the key of its peerID, the role has failed  *)
(* with signature_invalid.                                                 *)
(***************************************************************************)
C5_ForgeryIsSignatureInvalid ==
    \A r \in Roles : \A i \in 1..Len(log[r]) :
       ~SignatureValid(log[r][i]) =>
          /\ HasFailed(r)
          /\ err[r] = "signature_invalid"

(***************************************************************************)
(* C5 amended: once a role has read an envelope whose signature is not     *)
(* valid for its message under the key of its peerID, the role has failed  *)
(* and never reaches Done; the error is signature_invalid when the         *)
(* envelope's peerID is the pinned identity, and identity_mismatch when it *)
(* is not.                                                                 *)
(***************************************************************************)
C5_ForgeryRejected ==
    \A r \in Roles : \A i \in 1..Len(log[r]) :
       ~SignatureValid(log[r][i]) =>
          /\ HasFailed(r)
          /\ err[r] = IF log[r][i].env.peerID = ac[r].remotePeerID
                      THEN "signature_invalid"
                      ELSE "identity_mismatch"

C5_Witness ==
    /\ pc["I"] = "Failed"
    /\ err["I"] = "signature_invalid"
    /\ \E i \in 1..Len(log["I"]) :
          /\ log["I"][i].act = 2
          /\ log["I"][i].env.signature = Junk
          /\ log["I"][i].env.peerID = args["I"].remotePeerID

(***************************************************************************)
(* C6: every call of verify made by a receive step returns ok exactly when *)
(* pinned equals sender and the signature verifies under sender, and       *)
(* returns identity_mismatch whenever pinned differs from sender, also     *)
(* when the signature is invalid too.                                      *)
(***************************************************************************)
C6_VerifyContract ==
    \A r \in Roles : \A i \in 1..Len(log[r]) :
       LET e == log[r][i]
       IN /\ e.verify = "ok" <=> (e.pinned = e.env.peerID /\ SignatureValid(e))
          /\ e.pinned # e.env.peerID => e.verify = "identity_mismatch"
          /\ (e.pinned = e.env.peerID /\ ~SignatureValid(e))
                => e.verify = "signature_invalid"

C6_Witness ==
    \E r \in Roles : \E i \in 1..Len(log[r]) :
       /\ log[r][i].pinned # log[r][i].env.peerID
       /\ ~SignatureValid(log[r][i])
       /\ log[r][i].verify = "identity_mismatch"


(***************************************************************************)
(* C7: whenever both calls have returned success, exactly three envelopes  *)
(* have been written: the initiator wrote the Act 1 and the Act 3 payload, *)
(* the responder the Act 2 payload, each once; and on a transport that     *)
(* delivers what was written they were written in the order Act 1, Act 2,  *)
(* Act 3 and the message each receiver handed to the sub-protocol is the   *)
(* payload the sender's sub-protocol produced.                             *)
(***************************************************************************)
Messages(frames) == [i \in 1..Len(frames) |-> frames[i].message]

C7_ThreeEnvelopes ==
    BothDone =>
       /\ Len(sent) = 3
       /\ Messages(Written("I")) = <<Marshal(1), Marshal(3)>>
       /\ Messages(Written("R")) = <<Marshal(2)>>
       /\ adv.n = 0 =>
             /\ [i \in 1..3 |-> sent[i].by] = <<"I", "R", "I">>
             /\ Messages(Consumed("R")) = <<Marshal(1), Marshal(3)>>
             /\ Messages(Consumed("I")) = <<Marshal(2)>>
             /\ \A r \in Roles : \A i \in 1..Len(log[r]) : log[r][i].sub = "accepted"

C7_Witness == BothDone /\ adv.n = 0 /\ Len(sent) = 3

(***************************************************************************)
(* C8 as stated: when the adversary only drops, duplicates or reorders     *)
(* envelopes, no role whose inbound envelope sequence (what it has read,   *)
(* then what is still in flight to it) differs from what its peer wrote    *)
(* reaches Done.                                                           *)
(***************************************************************************)
OnlyDropDupReorder == adv.kinds \subseteq {"drop", "duplicate", "reorder"}
Inbound(r) == Consumed(r) \o wire[In(r)]
IsPrefix(s, t) == Len(s) <= Len(t) /\ s = SubSeq(t, 1, Len(s))

C8_AnyChangeAborts ==
    \A r \in Roles :
       (OnlyDropDupReorder /\ Inbound(r) # Written(Peer(r))) => pc[r] # "Done"

(***************************************************************************)
(* C8 amended: when the adversary only drops, duplicates or reorders       *)
(* envelopes, a role reaches Done only if the envelopes it has read are,   *)
(* in order, exactly the ones its peer wrote, and a role that has read     *)
(* anything else has failed.  An envelope that arrives behind the last one *)
(* a role reads (a duplicate of Act 2 or of Act 3) is never read and       *)
(* aborts nothing.                                                         *)
(***************************************************************************)
C8_ReadOutOfSequenceAborts ==
    \A r \in Roles :
       OnlyDropDupReorder =>
          /\ IsPrefix(Consumed(r), Written(Peer(r))) \/ HasFailed(r)
          /\ pc[r] = "Done" => Consumed(r) = Written(Peer(r))

C8_Witness ==
    /\ "duplicate" \in adv.kinds
    /\ OnlyDropDupReorder
    /\ pc["R"] = "Failed"
    /\ Len(log["R"]) = 2
    /\ log["R"][2].env = log["R"][1].env

(***************************************************************************)
(* C9: no pipelining.  The responder has written an envelope only if it    *)
(* has read the Act 1 envelope, verify passed on it and the sub-protocol   *)
(* accepted it; the initiator has written a second envelope (Act 3) only   *)
(* if it has read the Act 2 envelope, verify passed on it and the          *)
(* sub-protocol accepted it.                                               *)
(***************************************************************************)
C9_NoPipelining ==
    /\ Len(Written("R")) > 0 => Accepted("R", 1)
    /\ Len(Written("I")) > 1 => Accepted("I", 2)

C9_Witness ==
    /\ Len(Written("R")) = 1
    /\ Len(Written("I")) = 2
    /\ Written("I")[2].message = Marshal(3)

(***************************************************************************)
(* C10: as long as the responder has not read an Act 1 envelope that       *)
(* passed verify and was accepted by the sub-protocol, it has written zero *)
(* bytes; this includes every run in which reading or verifying Act 1      *)
(* failed.                                                                 *)
(***************************************************************************)
C10_ResponderSilentBeforeAct1 ==
    ~Accepted("R", 1) => BytesWritten("R") = 0

C10_Witness ==
    /\ pc["R"] = "Failed"
    /\ Len(log["R"]) = 1
    /\ log["R"][1].verify = "signature_invalid"
    /\ BytesWritten("R") = 0

(***************************************************************************)
(* C11: the pinned remote identity is assigned at most once.  On the       *)
(* initiator it is the expected remote identity the call was given, from   *)
(* the moment the connection object exists; on the responder it is empty   *)
(* until an Act 1 envelope is decoded and is that envelope's peerID from   *)
(* then on.  No step changes a pinned identity that has been assigned, and *)
(* a role that has decoded an envelope whose peerID disagrees with its     *)
(* pinned identity has failed.                                             *)
(***************************************************************************)
Pinned(r) == ac[r].remotePeerID

C11_PinnedState ==
    /\ ac["I"] # NoConn => Pinned("I") = args["I"].remotePeerID
    /\ ac["R"] # NoConn =>
          Pinned("R") = IF log["R"] = <<>> THEN EmptyID
                        ELSE log["R"][1].env.peerID
    /\ log["R"] # <<>> => log["R"][1].act = 1
    /\ \A r \in Roles : \A i \in 1..Len(log[r]) :
          log[r][i].env.peerID # Pinned(r) => HasFailed(r)

C11_PinnedStep ==
    \A r \in Roles :
       (ac[r] # NoConn /\ Pinned(r) # EmptyID) =>
          (ac'[r] # NoConn /\ ac'[r].remotePeerID = Pinned(r))

C11_PinnedOnce == []C11_PinnedState /\ [][C11_PinnedStep]_vars

C11_Witness ==
    /\ pc["R"] = "Failed"
    /\ Len(log["R"]) = 2
    /\ log["R"][2].act = 3
    /\ log["R"][2].env.peerID # Pinned("R")
    /\ Pinned("R") = log["R"][1].env.peerID
    /\ Pinned("R") = args["I"].localPeerID

(***************************************************************************)
(* C12: every envelope an honest role has written carries that role's own  *)
(* local identity as peerID and, as signature, the signature of the        *)
(* envelope's message under the role's local private key.                  *)
(***************************************************************************)
C12_EnvelopeOfWriter ==
    \A i \in 1..Len(sent) :
       LET w == sent[i].by
           f == sent[i].frame
       IN /\ f.peerID = args[w].localPeerID
          /\ f.signature = Sign(args[w].privateKey, f.message)

C12_Witness ==
    /\ Len(sent) = 3
    /\ args["I"].localPeerID # args["R"].localPeerID
    /\ \A i \in 1..3 : sent[i].frame.message = Marshal(i)

(***************************************************************************)
(* C13: frame-size enforcement.  A ReadMsg of either role that takes an    *)
(* envelope longer than 1024 bytes from the transport ends the call with   *)
(* the frame_oversize error and the transport closed, writes nothing and   *)
(* leaves the connection object as it was; no shorter envelope is refused  *)
(* as oversize; a role that has failed with frame_oversize has its         *)
(* transport closed and writes nothing afterwards, and the responder that  *)
(* failed so on Act 1 has written nothing at all.                          *)
(***************************************************************************)
\* role r takes the next frame off its inbound direction in this step
ReadsFrame(r) ==
    /\ adv' = adv
    /\ wire[In(r)] # <<>>
    /\ wire'[In(r)] = Tail(wire[In(r)])

C13_OversizeState ==
    \A r \in Roles :
       err[r] = "frame_oversize" =>
          /\ HasFailed(r)
          /\ closed[r]
          /\ (r = "R" /\ log["R"] = <<>>) => BytesWritten("R") = 0

C13_OversizeStep ==
    \A r \in Roles :
       /\ (ReadsFrame(r) /\ Head(wire[In(r)]).len > maxFrameSize) =>
             /\ pc'[r] = "Failed"
             /\ err'[r] = "frame_oversize"
             /\ closed'[r]
             /\ sent' = sent
             /\ ac' = ac
       /\ (ReadsFrame(r) /\ Head(wire[In(r)]).len <= maxFrameSize) =>
             err'[r] # "frame_oversize"
       /\ err[r] = "frame_oversize" =>
             /\ err'[r] = err[r]
             /\ \A i \in (Len(sent) + 1)..Len(sent') : sent'[i].by # r

C13_FrameSizeEnforced == []C13_OversizeState /\ [][C13_OversizeStep]_vars

C13_Witness ==
    /\ err["R"] = "frame_oversize"
    /\ pc["R"] = "Failed"
    /\ closed["R"]
    /\ log["R"] = <<>>
    /\ BytesWritten("R") = 0
    /\ Len(Written("I")) = 1

(***************************************************************************)
(* C14: once both calls have returned success, the bytes the initiator's   *)
(* caller has written to its connection are, in order and unchanged, the   *)
(* bytes the responder's caller has read from its connection followed by   *)
(* the bytes still in flight: the handshake's reader has taken from the    *)
(* transport no bytes behind the Act 3 frame.                              *)
(***************************************************************************)
C14_PostHandshakeBytesDelivered ==
    BothDone =>
       /\ app.held = <<>>
       /\ app.recv \o app.wire = app.sent

(***************************************************************************)
(* C15: independence.  Two handshakes run on two transports with their     *)
(* steps interleaved in any order.  A step of one leaves every part of the *)
(* other's state as it was, the pinned identities included; a role that    *)
(* has returned success has pinned the identity of the peer on its own     *)
(* transport; and when every initiator expects the identity of its own     *)
(* responder and no step is failed by its environment, all four calls      *)
(* eventually return success.                                              *)
(***************************************************************************)
Handshakes == {This, other}

PinnedOwnPeer(h) ==
    \A r \in Roles :
       h.pc[r] = "Done" => h.ac[r].remotePeerID = h.args[Peer(r)].localPeerID

Expected(h) == h.args["I"].remotePeerID = h.args["R"].localPeerID

AllDone == \A h \in Handshakes : \A r \in Roles : h.pc[r] = "Done"

C15_OwnState ==
    /\ cur' = cur => other' = other
    /\ cur' # cur => (other' = This /\ This' = other)

C15_Independence ==
    /\ [](\A h \in Handshakes : PinnedOwnPeer(h))
    /\ [][C15_OwnState]_vars
    /\ (\A h \in Handshakes : Expected(h)) =>
          <>(AllDone \/ \E h \in Handshakes : h.faults # {})

C15_Witness ==
    /\ AllDone
    /\ \A h \in Handshakes : h.faults = {}
    /\ cur = 2
    /\ ac["R"].remotePeerID = "idB"
    /\ other.ac["R"].remotePeerID = "idA"
    /\ Len(sent) = 3 /\ Len(other.sent) = 3

(***************************************************************************)
(* C17: each call ends in one of two outcomes and stays there.  At Done    *)
(* (the wrapper's return of the connection) no error has been returned,    *)
(* the connection object exists and the wrapper has not closed the         *)
(* transport; at Failed (the wrapper's return of nil and an error) an      *)
(* error has been returned.  A call that has returned takes no further     *)
(* step: its outcome, its error, its connection object and its transport   *)
(* stay as they are, so Done is reached at most once and neither outcome   *)
(* turns into the other.                                                   *)
(***************************************************************************)
C17_TerminalState ==
    \A r \in Roles :
       /\ pc[r] = "Done" => (err[r] = "none" /\ ~closed[r] /\ ac[r] # NoConn)
       /\ pc[r] = "Failed" => err[r] # "none"
       /\ err[r] # "none" => pc[r] = "Failed"

C17_TerminalStep ==
    \A r \in Roles :
       Returned(r) =>
          /\ pc'[r] = pc[r]
          /\ err'[r] = err[r]
          /\ closed'[r] = closed[r]
          /\ ac'[r] = ac[r]

C17_TerminalOutcomes == []C17_TerminalState /\ [][C17_TerminalStep]_vars

C17_Witness ==
    /\ pc["I"] = "Done"
    /\ pc["R"] = "Failed"
    /\ err = [I |-> "none", R |-> "subprotocol_error"]
    /\ ~closed["I"]
    /\ closed["R"]

(***************************************************************************)
(* C18 as stated: whenever the responder's pinned remote identity holds a  *)
(* value, it is the peerID of an Act 1 envelope that the responder has     *)
(* read and whose signature verification has passed.                       *)
(***************************************************************************)
PinnedSet(r) == ac[r] # NoConn /\ Pinned(r) # EmptyID

Act1Verified ==
    /\ log["R"] # <<>>
    /\ log["R"][1].act = 1
    /\ log["R"][1].env.peerID = Pinned("R")
    /\ log["R"][1].verify = "ok"
    /\ SignatureValid(log["R"][1])

C18_PinnedOnlyAfterVerified == PinnedSet("R") => Act1Verified

(***************************************************************************)
(* C18 amended: the responder adopts the peerID of the Act 1 envelope      *)
(* before it verifies the envelope.  Once the receive step for Act 1 has   *)
(* returned without error (the responder goes on to Act 2, to Act 3, to    *)
(* Done), the pinned identity is the peerID of an Act 1 envelope whose     *)
(* signature verified; when the verification fails the call has failed     *)
(* with that error and its transport closed, the pinned identity still     *)
(* being the peerID of the refused envelope.                               *)
(***************************************************************************)
C18_PinnedVerifiedOnceAccepted ==
    /\ pc["R"] \in {"SendingAct2", "AwaitingAct3", "Done"} =>
          (PinnedSet("R") /\ Act1Verified)
    /\ (PinnedSet("R") /\ ~Act1Verified) =>
          /\ HasFailed("R")
          /\ closed["R"]
          /\ Len(log["R"]) = 1
          /\ err["R"] = log["R"][1].verify
          /\ Pinned("R") = log["R"][1].env.peerID
          /\ Written("R") = <<>>

C18_Witness ==
    /\ PinnedSet("R")
    /\ Pinned("R") = args["I"].localPeerID
    /\ log["R"][1].env.signature = Junk
    /\ err["R"] = "signature_invalid"
    /\ HasFailed("R")

(***************************************************************************)
(* C19 as stated: a role that is still in its handshake when its peer has  *)
(* failed and closed the transport fails too, so no step takes such a role *)
(* to Done.                                                                *)
(***************************************************************************)
FailedAndClosed(r) == HasFailed(r) /\ closed[r]
InProgress(r) == pc[r] \notin {"Call", "Done", "Failed"}

C19_PeerFailureFailsOther ==
    [][\A r \in Roles :
          (FailedAndClosed(Peer(r)) /\ InProgress(r)) => pc'[r] # "Done"]_vars

(***************************************************************************)
(* C19 amended: on a reliable transport with every call scheduled, once a  *)
(* role has failed and closed the transport its peer is never blocked (it  *)
(* has a step that is no fault of its own) and eventually returns.  The    *)
(* responder eventually fails and closes whenever the initiator has failed *)
(* and closed; the initiator eventually fails whenever the responder has   *)
(* failed and closed without having written Act 2.  (When the responder    *)
(* fails after writing Act 2, the initiator may read Act 2, have its write *)
(* of Act 3 accepted and return success.)  When the initiator expects a    *)
(* well-formed identity that is not the responder's, both ends are         *)
(* eventually closed.                                                      *)
(***************************************************************************)
WrongExpectedRemote ==
    /\ args["I"].remotePeerID \in WellFormedIDs
    /\ args["I"].remotePeerID # args["R"].localPeerID

StepOf(r) == IF r = "I" THEN InitiatorStep ELSE ResponderStep

\* role r has a step to take that is not a fault of its own environment
CanGoOn(r) == ENABLED (StepOf(r) /\ faults' = faults)

C19_FailurePropagates ==
    /\ [](\A r \in Roles :
            (FailedAndClosed(Peer(r)) /\ InProgress(r)) => CanGoOn(r))
    /\ \A r \in Roles : FailedAndClosed(Peer(r)) ~> Returned(r)
    /\ FailedAndClosed("I") ~> FailedAndClosed("R")
    /\ (FailedAndClosed("R") /\ Written("R") = <<>>) ~> HasFailed("I")
    /\ WrongExpectedRemote => <>(closed["I"] /\ closed["R"])

C19_Witness ==
    /\ WrongExpectedRemote
    /\ FailedAndClosed("I") /\ FailedAndClosed("R")
    /\ err = [I |-> "identity_mismatch", R |-> "transport_io"]
    /\ faults = {}
    /\ Len(sent) = 2

(***************************************************************************)
(* C20: authentication agreement, against the adversary on the wire.       *)
(* Whenever the responder has returned success with pinned identity X, the *)
(* envelopes it decoded are an Act 1 and an Act 3 envelope, both accepted, *)
(* both with peerID X and a signature that verifies under X; whenever the  *)
(* initiator has returned success, the envelope it decoded is an Act 2     *)
(* envelope, accepted, with the expected remote identity as peerID and a   *)
(* signature that verifies under it.  When that identity is an honest      *)
(* peer's, the signed message is one a role holding that identity wrote.   *)
(***************************************************************************)
AuthenticatedAs(entry, id) ==
    /\ entry.env.peerID = id
    /\ SignatureValid(entry)
    /\ entry.verify = "ok"
    /\ entry.sub = "accepted"
    /\ id \in HonestIDs =>
          \E k \in 1..Len(sent) :
             /\ args[sent[k].by].localPeerID = id
             /\ sent[k].frame.message = entry.env.message
             /\ sent[k].frame.signature = entry.env.signature

C20_AuthenticationAgreement ==
    /\ pc["R"] = "Done" =>
          /\ Len(log["R"]) = 2
          /\ log["R"][1].act = 1 /\ log["R"][2].act = 3
          /\ \A i \in 1..2 : AuthenticatedAs(log["R"][i], Pinned("R"))
    /\ pc["I"] = "Done" =>
          /\ Len(log["I"]) = 1
          /\ log["I"][1].act = 2
          /\ AuthenticatedAs(log["I"][1], args["I"].remotePeerID)

C20_Witness ==
    /\ pc["I"] = "Done"
    /\ pc["R"] = "Done"
    /\ Pinned("R") = AdvID
    /\ args["I"].localPeerID # AdvID
    /\ adv.kinds = {"tamper"}

(***************************************************************************)
(* C21: the local identity and the local private key of a connection are   *)
(* the ones its call was given and no step changes them, whether the step  *)
(* succeeds or fails; a step changes no field of an existing connection    *)
(* object except the responder's pinned remote identity, and none of the   *)
(* initiator's; the arguments of the calls are never changed either.       *)
(***************************************************************************)
C21_LocalState ==
    \A r \in Roles :
       ac[r] # NoConn =>
          /\ ac[r].localPeerID = args[r].localPeerID
          /\ ac[r].localPeerPrivateKey = args[r].privateKey

C21_LocalStep ==
    /\ args' = args
    /\ \A r \in Roles :
          ac[r] # NoConn =>
             /\ ac'[r] # NoConn
             /\ ac'[r].localPeerID = ac[r].localPeerID
             /\ ac'[r].localPeerPrivateKey = ac[r].localPeerPrivateKey
             /\ ac'[r].remotePeerPublicKey = ac[r].remotePeerPublicKey
             /\ r = "I" => ac'[r] = ac[r]

C21_LocalKeyAndIdentityReadOnly == []C21_LocalState /\ [][C21_LocalStep]_vars

C21_Witness ==
    /\ pc["I"] = "Failed"
    /\ err["I"] = "signature_invalid"
    /\ pc["R"] = "Failed"
    /\ PinnedSet("R")
    /\ ac["R"].localPeerID = args["R"].localPeerID
    /\ ac["R"].localPeerID # Pinned("R")
    /\ ac["R"].remotePeerPublicKey = NoKey

(***************************************************************************)
(* C22: the initiator's call has returned success exactly when it has      *)
(* written its second envelope, Act 3, whatever the responder does with    *)
(* it.  Whenever the initiator is Done and the responder is about to read  *)
(* an Act 3 envelope that passes verify, the responder can still end in    *)
(* Failed (the sub-protocol's finalize refuses the message) with the       *)
(* initiator staying Done; and a responder that has refused Act 3, for an  *)
(* identity mismatch, a bad signature or a finalize failure, leaves the    *)
(* initiator Done, with no error and its transport open.                   *)
(***************************************************************************)
Act3Sent == Len(Written("I")) = 2 /\ Written("I")[2].message = Marshal(3)

\* the responder has read an Act 3 envelope and refused it
Act3Refused ==
    /\ HasFailed("R")
    /\ Len(log["R"]) = 2
    /\ log["R"][2].act = 3
    /\ err["R"] \in {"identity_mismatch", "signature_invalid", "subprotocol_error"}

\* the next envelope the responder reads is an Act 3 that verify accepts
Act3Deliverable ==
    /\ pc["R"] = "AwaitingAct3"
    /\ wire[In("R")] # <<>>
    /\ LET f == Head(wire[In("R")])
       IN /\ ~FrameTooLarge(f)
          /\ verify(Pinned("R"), f.peerID, f.message, f.signature) = "ok"
          /\ Unmarshal(3, f.message)

C22_InitiatorDoneAtAct3 ==
    /\ pc["I"] = "Done" <=> Act3Sent
    /\ (pc["I"] = "Done" /\ Act3Deliverable) =>
          ENABLED (/\ responderReceiveAct3
                   /\ pc'["R"] = "Failed"
                   /\ err'["R"] = "subprotocol_error"
                   /\ pc'["I"] = "Done")
    /\ (Act3Sent /\ Act3Refused) =>
          (pc["I"] = "Done" /\ err["I"] = "none" /\ ~closed["I"])

C22_Witness ==
    /\ pc["I"] = "Done"
    /\ Act3Refused
    /\ err["R"] = "subprotocol_error"
    /\ adv.n = 0
    /\ log["R"][2].env = Written("I")[2]

(***************************************************************************)
(* C24: when no public key can be extracted from the expected remote       *)
(* identity, the outbound call returns the error without starting the      *)
(* handshake: it is at its entry or has failed with malformed_identity, no *)
(* connection object has been built, it has written zero bytes and read    *)
(* nothing; and that error is returned in no other case.                   *)
(***************************************************************************)
NoRemoteKey == ~ExtractPublicKey(args["I"].remotePeerID).ok

C24_NoHandshakeWithoutKey ==
    /\ NoRemoteKey =>
          /\ pc["I"] \in {"Call", "Failed"}
          /\ pc["I"] = "Failed" => err["I"] = "malformed_identity"
          /\ ac["I"] = NoConn
          /\ BytesWritten("I") = 0
          /\ log["I"] = <<>>
    /\ err["I"] = "malformed_identity" => NoRemoteKey

C24_Witness ==
    /\ NoRemoteKey
    /\ pc["I"] = "Failed"
    /\ err["I"] = "malformed_identity"
    /\ ac["I"] = NoConn
    /\ sent = <<>>
    /\ pc["R"] = "AwaitingAct1"

(***************************************************************************)
(* C23: the remotePeerID argument of newAuthenticatedInboundConnection has *)
(* no effect.  Two runs that differ in that argument only are compared     *)
(* step by step: whatever step one run takes (a step of either call, with  *)
(* any outcome, or a step of the adversary), the other run can take a step *)
(* after which the two again differ in that argument only, so with the     *)
(* same inbound envelopes the responder is at the same position, with the  *)
(* same error and the same connection object.  And in both the responder's *)
(* pinned identity is empty until an Act 1 envelope is decoded and that    *)
(* envelope's peerID afterwards.                                           *)
(***************************************************************************)
PinnedFromAct1(h) ==
    h.ac["R"] # NoConn =>
       h.ac["R"].remotePeerID = IF h.log["R"] = <<>> THEN EmptyID
                                ELSE h.log["R"][1].env.peerID

C23_InboundArgumentIgnored ==
    /\ (cur = 2 /\ ~InStep) => ENABLED twinFollow
    /\ InStep =>
          /\ pc = other.pc /\ err = other.err /\ ac = other.ac
          /\ args["R"].remotePeerID # other.args["R"].remotePeerID
    /\ \A h \in Handshakes : PinnedFromAct1(h)

C23_Witness ==
    /\ cur = 2
    /\ InStep
    /\ pc["R"] = "Failed"
    /\ err["R"] = "identity_mismatch"
    /\ Pinned("R") = args["I"].localPeerID
    /\ args["R"].remotePeerID = AdvID
    /\ other.args["R"].remotePeerID = EmptyID

====
